---- MODULE Spec2Model ----
(***************************************************************************)
(* The edit-contact dialog of boxes/peers/edit_contact_box.cpp as a state  *)
(* machine: the Controller's fields, the two name input fields, the        *)
(* share-phone checkbox, the requests in flight at the session API, and    *)
(* the contact record the success callback updates.                        *)
(*                                                                         *)
(* Texts are sequences of one-character strings.                           *)
(***************************************************************************)
EXTENDS Naturals, Sequences, FiniteSets, Bags

\* ------------------------------------------------------------- bounds --
\* Requests one dialog may send before the model stops accepting Saves.
MaxReq == 2

\* ------------------------------------------------------------- inputs --
\* What a user may type into the first-name field: nothing, white space
\* only, a name with white space around it and a line break inside.
FirstTexts == { <<>>, <<" ", "\n">>, <<" ", "a", "\n", "b", " ">> }

\* What a user may type into the last-name field.
LastTexts == { <<>>, <<"c", "\n">> }

\* MTPDpeerSettings flags.
AllFlags ==
    { "add_contact", "block_contact", "report_spam",
      "need_contacts_exception", "share_contact" }

\* The settings of a user whose settings are not yet known: settings()
\* is empty.
Unknown == [known |-> FALSE, flags |-> {}]

Known(flags) == [known |-> TRUE, flags |-> flags]

\* The users the dialog may be opened for, each with what
\* findContactPhone finds for it: new and existing contacts, with and
\* without a phone, with settings unknown, known without and known with
\* the need-contacts-exception flag.
Users ==
    { [firstName |-> <<>>, lastName |-> <<>>, phone |-> "", found |-> "",
       isContact |-> FALSE, settings |-> Unknown],
      [firstName |-> <<"z">>, lastName |-> <<>>, phone |-> "", found |-> "222",
       isContact |-> FALSE,
       settings |-> Known({"add_contact", "block_contact",
                           "need_contacts_exception", "share_contact"})],
      [firstName |-> <<>>, lastName |-> <<"y">>, phone |-> "111", found |-> "222",
       isContact |-> FALSE,
       settings |-> Known({"add_contact", "report_spam", "share_contact"})],
      [firstName |-> <<"z">>, lastName |-> <<"y">>, phone |-> "111", found |-> "",
       isContact |-> TRUE,
       settings |-> Known({"report_spam", "need_contacts_exception"})],
      [firstName |-> <<"z">>, lastName |-> <<"y">>, phone |-> "", found |-> "222",
       isContact |-> TRUE, settings |-> Unknown] }

\* What the contact's phone becomes when it changes later.
LaterPhone == "333"

\* ---------------------------------------------------- pure functions --
\* QChar::isSpace on the characters of the model.
IsSpace(c) == c \in {" ", "\n"}

RECURSIVE TrimLeft(_)
TrimLeft(s) ==
    IF s # <<>> /\ IsSpace(Head(s)) THEN TrimLeft(Tail(s)) ELSE s

RECURSIVE TrimRight(_)
TrimRight(s) ==
    IF s # <<>> /\ IsSpace(s[Len(s)])
    THEN TrimRight(SubSeq(s, 1, Len(s) - 1))
    ELSE s

\* QString::trimmed().
trimmed(s) == TrimRight(TrimLeft(s))

\* TextUtilities::SingleLine: line breaks become spaces.
SingleLine(s) == [i \in 1..Len(s) |-> IF s[i] = "\n" THEN " " ELSE s[i]]

\* getValue without the call of SingleLine.
getValueNoSingleLine(text) == trimmed(text)
\* The getValue lambda of initNameFields.
getValue(text) == trimmed(SingleLine(text))

\* UserPhone(user): the user's phone, else the phone found among contacts.
UserPhone(phone, found) == IF phone = "" THEN found ELSE phone

\* Visual order of the two fields: `last` is inserted before `first` when
\* the language puts the first name second.
VisualOrder(inv) ==
    IF inv THEN <<"last", "first">> ELSE <<"first", "last">>

\* _focus preferring the empty field when the order is inverted.
FocusTargetEmptyField(inv, firstText, lastText) ==
    LET firstValue == getValue(firstText)
        lastValue == getValue(lastText)
    IN IF inv /\ firstValue = <<>> /\ lastValue # <<>> THEN "first"
       ELSE IF inv /\ firstValue # <<>> /\ lastValue = <<>> THEN "last"
       ELSE IF inv # (firstValue = <<>> /\ lastValue = <<>>) THEN "first"
       ELSE "last"
\* The _focus lambda: the field it gives focus to.
FocusTarget(inv, firstText, lastText) ==
    LET firstValue == getValue(firstText)
        lastValue == getValue(lastText)
        empty == firstValue = <<>> /\ lastValue = <<>>
        focusFirst == (inv # empty)
    IN IF focusFirst THEN "first" ELSE "last"

\* _save without its validation.
SaveEmptyNever(firstText, lastText) == FALSE
\* The `empty` test of the _save lambda.
SaveEmpty(firstText, lastText) ==
    LET firstValue == getValue(firstText)
        lastValue == getValue(lastText)
    IN firstValue = <<>> /\ lastValue = <<>>

\* showError() on the other field.
ErrorFieldTrailing(inv) == IF inv THEN "first" ELSE "last"
\* The field the _save lambda calls showError() on.
ErrorField(inv) == IF inv THEN "last" ELSE "first"

\* submit treating the normal order as it treats the inverted one.
SubmitBranchSymmetric(inv, firstText, lastText, focused) ==
    LET lead == VisualOrder(inv)[1]
        empty == trimmed(firstText) = <<>> /\ trimmed(lastText) = <<>>
    IN IF focused = lead
       THEN (IF inv THEN "focusFirst" ELSE "focusLast")
       ELSE IF empty
       THEN (IF inv THEN "focusLast" ELSE "focusFirst")
       ELSE "save"
\* The branch the submit lambda takes.
SubmitBranch(inv, firstText, lastText, focused) ==
    LET firstValue == trimmed(firstText)
        lastValue == trimmed(lastText)
        empty == firstValue = <<>> /\ lastValue = <<>>
    IN IF (IF inv THEN focused = "last" ELSE empty) THEN "focusFirst"
       ELSE IF (IF inv THEN empty ELSE focused = "first") THEN "focusLast"
       ELSE "save"

\* setupSharePhoneNumber: whether the checkbox is created.
HasSharePhone(settings) ==
    settings.known /\ "need_contacts_exception" \in settings.flags

\* sendRequest: f_add_phone_privacy_exception is set.
RequestFlag(box) == box = "checked"

\* The cleared flags with need-contacts-exception among them.
ClearedFlagsMore == { "add_contact", "block_contact", "report_spam",
                      "need_contacts_exception" }
\* The flags the success callback clears.
ClearedFlags == { "add_contact", "block_contact", "report_spam" }

\* The success callback's new settings.
NewSettings(settings) ==
    IF settings.known
    THEN [settings EXCEPT !.flags = settings.flags \ ClearedFlags]
    ELSE settings

\* The success callback without the check of the weak handle.
ShouldCloseAlways(alive) == TRUE
\* The success callback's `if (weak)`.
ShouldClose(alive) == alive

\* The success callback's `if (!wasContact)`.
ShouldToast(wasContact) == ~wasContact

\* api().applyUpdates(result): the server's answer to contacts.addContact
\* marks the user as a contact.
ApplyUpdates(u) == [u EXCEPT !.isContact = TRUE]

\* -------------------------------------------------------------- state --
VARIABLES
    user,        \* the contact record: names, phone, isContact, settings,
                 \* and what findContactPhone finds for it
    stray,       \* the object a dangling _user may designate
    inverted,    \* langFirstNameGoesSecond()
    box,         \* "none" (not yet opened), "open", "destroyed"
    firstText,   \* text of the `first` input field
    lastText,    \* text of the `last` input field
    focus,       \* "first", "last" or "other"
    errorField,  \* the field showing an error: "none", "first", "last"
    sharePhone,  \* _sharePhone: "absent", "checked", "unchecked"
    phone_,      \* _phone
    atOpen,      \* the contact record as it was when the dialog was opened
    pending,     \* the requests in flight, a bag
    nsent,       \* requests sent so far
    toasts,      \* the toasts shown, in order
    closeCalls,  \* calls of closeBox()
    staleRead,   \* a callback has read a destroyed Controller's field
    crashed,     \* the process has ended in a crash
    op           \* the last operation: "save", "submit", "focus", "done",
                 \* "fail", "cancel", or "other"

vars == << user, stray, inverted, box, firstText, lastText, focus,
           errorField, sharePhone, phone_, atOpen, pending, nsent, toasts,
           closeCalls, staleRead, crashed, op >>

\* The widgets' state and the Controller's _phone.
ui == << firstText, lastText, focus, errorField, sharePhone, phone_ >>

Init ==
    /\ user \in Users
    /\ stray = [firstName |-> <<"s">>, lastName |-> <<"s">>,
                settings |-> [known |-> TRUE, flags |-> AllFlags]]
    /\ inverted \in BOOLEAN
    /\ box = "none"
    /\ firstText = <<>>
    /\ lastText = <<>>
    /\ focus = "other"
    /\ errorField = "none"
    /\ sharePhone = "absent"
    /\ phone_ = ""
    /\ atOpen = user
    /\ pending = EmptyBag
    /\ nsent = 0
    /\ toasts = <<>>
    /\ closeCalls = 0
    /\ staleRead = FALSE
    /\ crashed = FALSE
    /\ op = "other"

Running == box = "open" /\ ~crashed

\* EditContactBox: the Controller is constructed and prepared, and the box,
\* once shown, calls its focus callback.
Open ==
    /\ box = "none"
    /\ box' = "open"
    /\ phone_' = UserPhone(user.phone, user.found)
    /\ firstText' = user.firstName
    /\ lastText' = user.lastName
    /\ sharePhone' = IF HasSharePhone(user.settings) THEN "checked" ELSE "absent"
    /\ focus' = FocusTarget(inverted, user.firstName, user.lastName)
    /\ atOpen' = user
    /\ op' = "other"
    /\ UNCHANGED << user, stray, inverted, errorField, pending, nsent,
                    toasts, closeCalls, staleRead, crashed >>

\* The user types into the `first` field.
EditFirst ==
    /\ Running
    /\ \E t \in FirstTexts : firstText' = t
    /\ op' = "other"
    /\ UNCHANGED << user, stray, inverted, box, lastText, focus,
                    errorField, sharePhone, phone_, atOpen, pending, nsent,
                    toasts, closeCalls, staleRead, crashed >>

\* The user types into the `last` field.
EditLast ==
    /\ Running
    /\ \E t \in LastTexts : lastText' = t
    /\ op' = "other"
    /\ UNCHANGED << user, stray, inverted, box, firstText, focus,
                    errorField, sharePhone, phone_, atOpen, pending, nsent,
                    toasts, closeCalls, staleRead, crashed >>

\* The user clicks the share-phone checkbox.
ToggleSharePhone ==
    /\ Running
    /\ sharePhone # "absent"
    /\ sharePhone' = IF sharePhone = "checked" THEN "unchecked" ELSE "checked"
    /\ op' = "other"
    /\ UNCHANGED << user, stray, inverted, box, firstText, lastText,
                    focus, errorField, phone_, atOpen, pending, nsent, toasts,
                    closeCalls, staleRead, crashed >>

\* The user moves the focus with the mouse or the tab key.
MoveFocus ==
    /\ Running
    /\ \E f \in {"first", "last"} \ {focus} : focus' = f
    /\ op' = "other"
    /\ UNCHANGED << user, stray, inverted, box, firstText, lastText,
                    errorField, sharePhone, phone_, atOpen, pending, nsent,
                    toasts, closeCalls, staleRead, crashed >>

\* The box calls its focus callback, _focus.
FocusDefault ==
    /\ Running
    /\ focus' = FocusTarget(inverted, firstText, lastText)
    /\ op' = "focus"
    /\ UNCHANGED << user, stray, inverted, box, firstText, lastText,
                    errorField, sharePhone, phone_, atOpen, pending, nsent,
                    toasts, closeCalls, staleRead, crashed >>

\* The request sendRequest builds from what it is given and the
\* Controller's fields.
NewRequest(firstValue, lastValue) ==
    [exception |-> RequestFlag(sharePhone),
     first |-> firstValue,
     last |-> lastValue,
     phone |-> phone_,
     wasContact |-> user.isContact]

\* The _save lambda: validation, then sendRequest.
Save ==
    IF SaveEmpty(firstText, lastText)
    THEN /\ focus' = FocusTarget(inverted, firstText, lastText)
         /\ errorField' = ErrorField(inverted)
         /\ UNCHANGED << pending, nsent >>
    ELSE /\ pending' = pending (+)
               SetToBag({ NewRequest(getValue(firstText), getValue(lastText)) })
         /\ nsent' = nsent + 1
         /\ UNCHANGED << focus, errorField >>

\* The Done button.
PressSave ==
    /\ Running
    /\ SaveEmpty(firstText, lastText) \/ nsent < MaxReq
    /\ Save
    /\ op' = "save"
    /\ UNCHANGED << user, stray, inverted, box, firstText, lastText,
                    sharePhone, phone_, atOpen, toasts, closeCalls,
                    staleRead, crashed >>

\* The submit key in the field that has the focus: the submit lambda.
PressSubmit ==
    /\ Running
    /\ focus \in {"first", "last"}
    /\ LET branch == SubmitBranch(inverted, firstText, lastText, focus)
       IN /\ branch = "save" => (SaveEmpty(firstText, lastText) \/ nsent < MaxReq)
          /\ IF branch = "focusFirst"
             THEN focus' = "first" /\ UNCHANGED << errorField, pending, nsent >>
             ELSE IF branch = "focusLast"
             THEN focus' = "last" /\ UNCHANGED << errorField, pending, nsent >>
             ELSE Save
    /\ op' = "submit"
    /\ UNCHANGED << user, stray, inverted, box, firstText, lastText,
                    sharePhone, phone_, atOpen, toasts, closeCalls,
                    staleRead, crashed >>

\* GenericBox::closeBox(): the box is closed and destroyed, and with it
\* its widgets and the Controller its lifetime owns, whose state is gone.
CloseBox ==
    /\ box' = "destroyed"
    /\ closeCalls' = closeCalls + 1
    /\ firstText' = <<>>
    /\ lastText' = <<>>
    /\ focus' = "other"
    /\ errorField' = "none"
    /\ sharePhone' = "absent"
    /\ phone_' = ""

\* The Cancel button.
Cancel ==
    /\ Running
    /\ CloseBox
    /\ op' = "cancel"
    /\ UNCHANGED << user, stray, inverted, atOpen, pending, nsent, toasts,
                    staleRead, crashed >>

\* What the success callback does to the object its _user designates:
\* setName, then applyUpdates, then the settings without the cleared flags.
\* Username, phone and the rest are passed through as they are.
DoneOnUser(u, r) ==
    LET named == [u EXCEPT !.firstName = r.first, !.lastName = r.last]
        updated == ApplyUpdates(named)
    IN [updated EXCEPT !.settings = NewSettings(updated.settings)]

\* The same calls landing on whatever a dangling _user designates.
DoneOnStray(o, r) ==
    [o EXCEPT !.firstName = r.first, !.lastName = r.last,
              !.settings = NewSettings(o.settings)]

\* The tail of the success callback, which uses captured values only:
\* closeBox() through the weak handle, then the toast.
DoneTail(r) ==
    /\ IF ShouldClose(box = "open")
       THEN CloseBox
       ELSE UNCHANGED << box, closeCalls, ui >>
    /\ toasts' = IF ShouldToast(r.wasContact)
                 THEN Append(toasts, r.first)
                 ELSE toasts

\* The success callback of request r. It reads this->_user: with the
\* Controller destroyed that is a read of freed memory, which may still
\* hold the pointer, may hold something else, or may end the process.
Done(r) ==
    /\ ~crashed
    /\ BagIn(r, pending)
    /\ pending' = pending (-) SetToBag({r})
    /\ op' = "done"
    /\ IF box = "open"
       THEN /\ user' = DoneOnUser(user, r)
            /\ DoneTail(r)
            /\ UNCHANGED << stray, staleRead, crashed >>
       ELSE /\ staleRead' = TRUE
            /\ \E outcome \in {"intact", "stray", "crash"} :
                 CASE outcome = "intact" ->
                        /\ user' = DoneOnUser(user, r)
                        /\ DoneTail(r)
                        /\ UNCHANGED << stray, crashed >>
                   [] outcome = "stray" ->
                        /\ stray' = DoneOnStray(stray, r)
                        /\ DoneTail(r)
                        /\ UNCHANGED << user, crashed >>
                   [] outcome = "crash" ->
                        /\ crashed' = TRUE
                        /\ UNCHANGED << user, stray, box, closeCalls, ui,
                                        toasts >>
    /\ UNCHANGED << inverted, atOpen, nsent >>

\* A failure callback that closes the box.
FailCallbackCloses ==
    /\ IF box = "open" THEN CloseBox ELSE UNCHANGED << box, closeCalls, ui >>
    /\ UNCHANGED << user, stray, toasts, staleRead, crashed >>
\* The body of the failure callback: empty.
FailCallback ==
    UNCHANGED << user, stray, box, ui, toasts, closeCalls, staleRead, crashed >>

\* The failure callback of request r.
Fail(r) ==
    /\ ~crashed
    /\ BagIn(r, pending)
    /\ pending' = pending (-) SetToBag({r})
    /\ op' = "fail"
    /\ FailCallback
    /\ UNCHANGED << inverted, atOpen, nsent >>

\* The contact's phone changes while the dialog is open (an update from
\* the server, applied by the session).
ChangePhone ==
    /\ Running
    /\ user.phone # LaterPhone
    /\ user' = [user EXCEPT !.phone = LaterPhone]
    /\ op' = "other"
    /\ UNCHANGED << stray, inverted, box, ui, atOpen, pending, nsent, toasts,
                    closeCalls, staleRead, crashed >>

Next ==
    \/ Open
    \/ EditFirst
    \/ EditLast
    \/ ToggleSharePhone
    \/ MoveFocus
    \/ FocusDefault
    \/ PressSave
    \/ PressSubmit
    \/ Cancel
    \/ \E r \in BagToSet(pending) : Done(r)
    \/ \E r \in BagToSet(pending) : Fail(r)
    \/ ChangePhone

Spec == Init /\ [][Next]_vars

\* ------------------------------------------- vocabulary of the claims --
\* A text that is empty after trimming: white space only.
Blank(t) == \A i \in 1..Len(t) : t[i] \in {" ", "\n"}

\* v is text without the white space at its ends, on a single line.
IsValueOf(v, t) ==
    /\ \A k \in 1..Len(v) : v[k] # "\n"
    /\ v # <<>> => (v[1] # " " /\ v[Len(v)] # " ")
    /\ \E i \in 0..Len(t) :
         /\ i + Len(v) <= Len(t)
         /\ Blank(SubSeq(t, 1, i))
         /\ Blank(SubSeq(t, i + Len(v) + 1, Len(t)))
         /\ \A k \in 1..Len(v) :
              v[k] = (IF t[i + k] = "\n" THEN " " ELSE t[i + k])

\* First and second field in visual order.
Lead == IF inverted THEN "last" ELSE "first"
Trail == IF inverted THEN "first" ELSE "last"

\* The requests a step adds to, and takes from, those in flight.
SentNow ==
    { r \in BagToSet(pending') : CopiesIn(r, pending') > CopiesIn(r, pending) }
HandledNow ==
    { r \in BagToSet(pending) : CopiesIn(r, pending') < CopiesIn(r, pending) }

\* The phone as the construction of the dialog resolved it.
PhoneAtOpen == IF atOpen.phone # "" THEN atOpen.phone ELSE atOpen.found

\* The checkbox was created: the settings at open asked for the exception.
CheckboxAtOpen ==
    atOpen.settings.known /\ "need_contacts_exception" \in atOpen.settings.flags

\* ---------------------------------------------------------------- C1 --
\* C1: no request in flight ever carries a first and a last name that are
\* both empty (or white space only), whatever was typed and whichever of
\* Save and the submit key sent it, in either name order.
C1_NoEmptyNameRequest ==
    \A r \in BagToSet(pending) : ~Blank(r.first) \/ ~Blank(r.last)

\* A Save with white space only in the fields was refused after an
\* earlier request, with only a last name, had been sent.
C1_Witness ==
    /\ op = "save"
    /\ firstText = <<" ", "\n">> /\ lastText = <<>>
    /\ errorField # "none"
    /\ \E r \in BagToSet(pending) : r.first = <<>> /\ r.last = <<"c">>

\* ---------------------------------------------------------------- C2 --
\* C2: a Save with a non-empty name sends exactly one request, and every
\* request sent carries the two fields' texts trimmed and on one line, the
\* phone resolved at construction, and the exception flag exactly when the
\* checkbox exists and is checked.
C2_OneRequestAsRead ==
    [][ /\ (op' = "save" /\ ~(Blank(firstText) /\ Blank(lastText)))
            => /\ nsent' = nsent + 1
               /\ BagCardinality(pending') = BagCardinality(pending) + 1
               /\ Cardinality(SentNow) = 1
        /\ \A r \in SentNow :
              /\ IsValueOf(r.first, firstText)
              /\ IsValueOf(r.last, lastText)
              /\ r.phone = PhoneAtOpen
              /\ r.exception = (CheckboxAtOpen /\ sharePhone = "checked")
      ]_vars

\* A request was just sent from texts that needed trimming, with the box
\* unchecked, after the contact's phone had changed.
C2_Witness ==
    /\ op = "save"
    /\ user.phone = "333" /\ atOpen.phone = ""
    /\ sharePhone = "unchecked"
    /\ \E r \in BagToSet(pending) :
         /\ r.first = <<"a", " ", "b">> /\ r.last = <<"c">>
         /\ r.phone = "222" /\ ~r.exception

\* ---------------------------------------------------------------- C3 --
\* C3 as claimed: a Save with both fields empty focuses the first field
\* in visual order and shows the error on the second one.
C3_ErrorOnSecondField ==
    [][ (op' = "save" /\ Blank(firstText) /\ Blank(lastText))
            => (focus' = Lead /\ errorField' = Trail /\ nsent' = nsent)
      ]_vars

\* C3 as amended: a Save with both fields empty sends nothing, focuses the
\* first field in visual order and shows the error on that same field.
C3_ErrorOnFirstField ==
    [][ (op' = "save" /\ Blank(firstText) /\ Blank(lastText))
            => /\ focus' = Lead
               /\ errorField' = Lead
               /\ nsent' = nsent /\ pending' = pending
      ]_vars

\* In inverted order a Save of empty fields has just been refused while
\* the focus was on the first-name field.
C3_Witness ==
    /\ op = "save" /\ inverted
    /\ Blank(firstText) /\ Blank(lastText) /\ firstText # <<>>
    /\ errorField = "last" /\ focus = "last"

\* ---------------------------------------------------------------- C4 --
\* C4: closeBox() is called only on a live box, and at most once: a
\* success response that finds the box gone skips it.
C4_CloseOnlyLiveOnce ==
    [][ /\ closeCalls' <= 1
        /\ closeCalls' # closeCalls => box = "open"
        /\ (op' = "done" /\ box # "open") => closeCalls' = closeCalls
      ]_vars

\* A success response was handled, without a crash, after the box had
\* been closed.
C4_Witness ==
    /\ op = "done" /\ staleRead /\ ~crashed
    /\ closeCalls = 1 /\ box = "destroyed"

\* ---------------------------------------------------------------- C5 --
\* C5 as claimed: a success response shows one toast with the request's
\* first name if the contact is not yet a contact, and none if it already
\* is one, also when an earlier response of this dialog made it one.
C5_ToastOnlyOnCreation ==
    [][ (op' = "done" /\ ~crashed')
            => \E r \in HandledNow :
                 toasts' = IF user.isContact THEN toasts
                           ELSE Append(toasts, r.first)
      ]_vars

\* ---------------------------------------------------------------- C6 --
\* C6: a failure response changes neither the contact, nor the fields and
\* the checkbox, nor the toasts, and leaves the box as it is; the box is
\* closed by Cancel or by a success response only.
C6_FailureChangesNothing ==
    [][ /\ op' = "fail"
            => UNCHANGED << user, firstText, lastText, sharePhone, focus,
                            errorField, toasts, box, closeCalls >>
        /\ (box = "open" /\ box' # "open") => op' \in {"cancel", "done"}
      ]_vars

\* After a failure the box is still open and a second Save has just sent
\* a new request.
C6_Witness ==
    /\ op = "save" /\ box = "open"
    /\ nsent = 2 /\ BagCardinality(pending) = 1

\* ---------------------------------------------------------------- C7 --
\* The change the success callback makes to the contact for request r.
C7_Change(r) ==
    /\ user'.firstName = r.first
    /\ user'.lastName = r.last
    /\ user'.settings.known = user.settings.known
    /\ \A f \in AllFlags :
         f \in user'.settings.flags <=>
            /\ f \in user.settings.flags
            /\ ~(user.settings.known /\
                 f \in {"add_contact", "block_contact", "report_spam"})
    /\ user'.phone = user.phone

C8_SubmitAsClaimed ==
    [][ op' = "submit" =>
          /\ (~Blank(firstText) /\ ~Blank(lastText)) => nsent' = nsent + 1
          /\ (Blank(firstText) \/ Blank(lastText)) =>
                /\ nsent' = nsent
                /\ Blank(IF focus' = "first" THEN firstText ELSE lastText)
          /\ (Blank(firstText) /\ Blank(lastText) /\ focus = Lead)
                => focus' = Trail
      ]_vars

\* C8 as amended: the submit key saves exactly when the names are not both
\* empty and the focus is on the second field in visual order; with the
\* names not both empty and the focus on the first field it moves the
\* focus to the second; with both empty it sends nothing and, in normal
\* order, puts the focus on the first field, in inverted order moves it
\* to the other field.
C8_SubmitAsCoded ==
    [][ op' = "submit" =>
          IF Blank(firstText) /\ Blank(lastText)
          THEN /\ nsent' = nsent /\ pending' = pending
               /\ focus' = IF inverted /\ focus = Lead THEN Trail ELSE Lead
          ELSE IF focus = Lead
          THEN /\ nsent' = nsent /\ pending' = pending
               /\ focus' = Trail
          ELSE /\ nsent' = nsent + 1
               /\ focus' = focus
      ]_vars

\* The submit key was pressed with both names filled and nothing has been
\* sent: the focus moved to the second field.
C8_Witness ==
    /\ op = "submit" /\ ~inverted
    /\ ~Blank(firstText) /\ ~Blank(lastText)
    /\ focus = "last" /\ nsent = 0

\* ---------------------------------------------------------------- C9 --
\* C9 as claimed: in inverted order, with exactly one name present, the
\* focus callback focuses the empty field.
C9_FocusesEmptyField ==
    [][ (op' = "focus" /\ inverted /\ Blank(firstText) # Blank(lastText))
            => Blank(IF focus' = "first" THEN firstText ELSE lastText)
      ]_vars

\* C9 as amended: the focus callback, also when the box calls it on
\* opening, focuses the first field in visual order when both names are
\* empty and the second field otherwise.
C9_FocusByOrderAndEmptiness ==
    [][ /\ op' = "focus"
            => focus' = IF Blank(firstText) /\ Blank(lastText)
                        THEN Lead ELSE Trail
        /\ (box = "none" /\ box' = "open")
            => focus' = IF user.firstName = <<>> /\ user.lastName = <<>>
                        THEN Lead ELSE Trail
      ]_vars

\* In inverted order the focus callback has put the focus on the filled
\* first-name field while the last-name field is empty.
C9_Witness ==
    /\ op = "focus" /\ inverted
    /\ ~Blank(firstText) /\ Blank(lastText)
    /\ focus = "first"

\* --------------------------------------------------------------- C10 --
\* C10: no completion callback reads a field of the Controller after the
\* dialog, and the Controller with it, has been destroyed.
C10_NoReadOfDestroyedController == ~staleRead

====
